---- MODULE Spec2Model ----
(***************************************************************************)
(* Model of the asynchronous log engine of log-server                      *)
(* (src/log-server/asynclog/mod.rs).                                       *)
(*                                                                         *)
(* Producers call AsyncLog.append / last_offset / read; each call creates  *)
(* a one-shot completion and sends a request on one of two ingress         *)
(* channels.  One engine thread (LogSink driven by send_all over the       *)
(* select of the two streams) drains the channels, executes each request   *)
(* against the CommitLog and fires the completions; when both channels are *)
(* empty it runs poll_complete (the flush step) and parks.                 *)
(*                                                                         *)
(* The CommitLog and pool crates, the batched_mpsc module and the futures  *)
(* combinators are not part of src/; they are modelled by their contract.  *)
(***************************************************************************)
EXTENDS Integers, Sequences, FiniteSets

\* ------------------------------------------------------------------ bounds
\* Calls the producers make in all, CommitLog failures injected, clock ticks
MaxCalls == 3
MaxFailures == 1
MaxTime == 4

\* ------------------------------------------------------- program constants
FlushInterval == 1
PoolCapacity == 30

\* Two producers, each with a clone of the AsyncLog handle
Producers == {1, 2}
\* Payloads (byte sequences) that differ in content and in size
Payloads == {<<1>>, <<2, 2>>}
\* Read positions (offsets) and read limits (bytes)
ReadPositions == {0, 1}
ReadLimits == {1, 2}
\* The log directory is empty or holds a message of an earlier run (byte 0)
InitLogs == {<<>>, << <<0>> >>}

VARIABLES
    calls,        \* calls[p]: the calls producer p made, in program order,
                  \*           each with the state of its one-shot completion
    panicked,     \* panicked[p]: producer p's thread panicked in a call
    append_sink,  \* batched append channel: ids <<p, k>> of queued AppendReq
    read_sink,    \* meta channel: ids of queued LastOffset / Read requests
    flag,         \* Select's flag: TRUE = poll the meta stream first
    engine,       \* "running" | "parked" | "gone"
    log,          \* CommitLog: log[o + 1] is the message at offset o
    dirty,        \* LogSink.dirty
    last_flush,   \* LogSink.last_flush
    now,          \* the clock Instant::now() reads
    pool,         \* LogSink.pool: the buffers available for checkout, each
                  \*           with the messages it holds
    failures,     \* number of CommitLog failures injected so far
    flush_calls   \* history of the CommitLog.flush invocations: when each was
                  \*           made, whether it succeeded, the log's length then

vars == <<calls, panicked, append_sink, read_sink, flag, engine, log, dirty,
          last_flush, now, pool, failures, flush_calls>>

Min(a, b) == IF a < b THEN a ELSE b

\* ------------------------------------------------------- one-shot channels
\* A call record: the request's arguments, what the caller had observed when
\* it issued the call, and the one-shot's state.
\*   hb: 1 + the largest offset acknowledged to anyone before the call was
\*       issued (kept for append and read calls)
\*   awaited: every earlier call of the producer had resolved when the call
\*       was issued (kept for last_offset calls)
\*   dropped: the caller dropped the LogFuture (the one-shot's Receiver)
\*   st: "pending" | "ok" | "err" | "cancelled" | "panicked" | "discarded"
\*   fired: how many times Sender::complete ran for this one-shot
NewCall(kind, payload, pos, lim, hb, awaited) ==
    [kind |-> kind, payload |-> payload, pos |-> pos, lim |-> lim,
     hb |-> hb, awaited |-> awaited, dropped |-> FALSE,
     st |-> "pending", off |-> 0, msgs |-> <<>>, err |-> "", fired |-> 0]

\* Sender::complete on a one-shot whose Receiver is gone: the value is
\* discarded and complete returns as usual.
CompleteDiscarded(c) == [c EXCEPT !.st = "discarded", !.fired = @ + 1]

\* oneshot::Sender::complete(Ok(offset))
CompleteOkOffset(c, offset) ==
    IF c.dropped THEN CompleteDiscarded(c)
    ELSE [c EXCEPT !.st = "ok", !.off = offset, !.fired = @ + 1]

\* oneshot::Sender::complete(Ok(messages))
CompleteOkMessages(c, m) ==
    IF c.dropped THEN CompleteDiscarded(c)
    ELSE [c EXCEPT !.st = "ok", !.msgs = m, !.fired = @ + 1]

\* oneshot::Sender::complete(Err(Error::new(ErrorKind::Other, e)))
CompleteErr(c, e) ==
    IF c.dropped THEN CompleteDiscarded(c)
    ELSE [c EXCEPT !.st = "err", !.err = e, !.fired = @ + 1]

\* The Sender is dropped without complete: the Receiver polls Err(Canceled),
\* which LogFuture::poll turns into the "Cancelled" error.
DropSender(c) ==
    IF c.st = "pending" THEN [c EXCEPT !.st = "cancelled", !.err = "Cancelled"]
    ELSE c

\* A bug that takes the one-shot's cancellation for "not ready yet"
LogFuturePoll_CancelNotReady(c) ==
    IF c.st = "ok" THEN [poll |-> "Ready", err |-> ""]
    ELSE IF c.st = "err" THEN [poll |-> "Err", err |-> c.err]
    ELSE [poll |-> "NotReady", err |-> ""]

\* LogFuture::poll: the one-shot's value, its error, NotReady while the
\* Sender is alive and has not completed, the error "Cancelled" when the
\* Sender was dropped without completing.
LogFuturePoll(c) ==
    IF c.st = "ok" THEN [poll |-> "Ready", err |-> ""]
    ELSE IF c.st = "err" THEN [poll |-> "Err", err |-> c.err]
    ELSE IF c.st = "cancelled"
         THEN [poll |-> "Err", err |-> "Cancelled"]
         ELSE [poll |-> "NotReady", err |-> ""]

Call(id) == calls[id[1]][id[2]]

CallIds == {<<p, k>> : p \in Producers, k \in 1..MaxCalls}
Issued == {id \in CallIds : id[2] <= Len(calls[id[1]])}
NumCalls == Cardinality(Issued)

\* 1 + the largest offset any append completion has delivered so far (0 if none)
AckedBound ==
    LET acked == {Call(id).off : id \in {i \in Issued :
                      Call(i).kind = "append" /\ Call(i).st = "ok"}}
    IN IF acked = {} THEN 0
       ELSE 1 + CHOOSE o \in acked : \A o2 \in acked : o2 <= o

\* Whether every earlier call of producer p has resolved
AllResolved(p) == \A k \in 1..Len(calls[p]) : calls[p][k].st # "pending"

\* ---------------------------------------------------------------- CommitLog
\* CommitLog.append(buf): the messages of buf get the next offsets
CommitLogAppend(lg, batch) ==
    [log |-> lg \o batch, first |-> Len(lg), len |-> Len(batch)]

\* CommitLog.last_offset(): None (-1) for an empty log
CommitLogLastOffset(lg) == Len(lg) - 1

RECURSIVE TakeFit(_, _)
TakeFit(msgs, lim) ==
    IF msgs = <<>> \/ Len(Head(msgs)) > lim THEN <<>>
    ELSE <<Head(msgs)>> \o TakeFit(Tail(msgs), lim - Len(Head(msgs)))

\* CommitLog.read(pos, lim): the messages from offset pos on that fit lim
\* bytes; an offset that was never written is an error.
CommitLogRead(lg, pos, lim) ==
    IF pos >= Len(lg) THEN [ok |-> FALSE, msgs |-> <<>>]
    ELSE [ok |-> TRUE, msgs |-> TakeFit(SubSeq(lg, pos + 1, Len(lg)), lim)]

\* --------------------------------------------------------------------- pool
\* A bug that leaves the buffer's messages in place
Reset_Noop(buf) == buf

\* impl Reset for PooledBuf: unsafe_clear() sets the logical length to zero
Reset(buf) == <<>>

\* Pool::with_capacity(30, 0, init): every buffer is built empty by init
PoolWithCapacity(n) == [i \in 1..n |-> <<>>]

\* Pool::checkout(): a buffer if one is available, else None
PoolCheckout(pl) ==
    IF pl # <<>> THEN [some |-> TRUE, buf |-> Head(pl), pool |-> Tail(pl)]
    ELSE [some |-> FALSE, buf |-> <<>>, pool |-> pl]

\* Drop of a Checkout: the buffer is cleared and goes back unless the pool
\* is full.
PoolCheckin(pl, buf) ==
    IF Len(pl) < PoolCapacity THEN <<Reset(buf)>> \o pl ELSE pl

\* A bug that starts the fallback buffer with a message left from before
UnpooledBuf_Stale == << <<1>> >>

\* MessageBuf::default(): the freshly allocated buffer is empty
UnpooledBuf == <<>>

\* ---------------------------------------------------------- ingress, select
\* batched_mpsc::UnboundedSender::send / mpsc::UnboundedSender::send:
\* the item is enqueued behind the items already in the channel.
Enqueue(q, id) == Append(q, id)

\* batched_mpsc receiver poll: every queued item, in queue order, as one Vec
DrainAll(q) == q

\* Select::poll of append_stream.select(read_stream): the stream the flag
\* names is polled first; the flag flips on every poll and flips back when
\* the item came from the stream polled second.
SelectPoll(f, appendReady, metaReady) ==
    LET first == IF f THEN "meta" ELSE "append"
        second == IF f THEN "append" ELSE "meta"
        ready(s) == IF s = "append" THEN appendReady ELSE metaReady
    IN IF ready(first) THEN [side |-> first, flag |-> ~f]
       ELSE IF ready(second) THEN [side |-> second, flag |-> f]
       ELSE [side |-> "none", flag |-> ~f]

\* A bug that merges the streams with a fixed preference for the appends
Selected_AppendFirst ==
    [side |-> IF append_sink # <<>> THEN "append"
              ELSE IF read_sink # <<>> THEN "meta" ELSE "none",
     flag |-> flag]

\* req_stream = append_stream.select(read_stream), polled by send_all
Selected == SelectPoll(flag, append_sink # <<>>, read_sink # <<>>)

\* ------------------------------------------------------ LogSink::start_send
InSeq(q, id) == \E i \in 1..Len(q) : q[i] = id
IndexOf(q, id) == CHOOSE i \in 1..Len(q) : q[i] = id

\* A bug that fills the buffer back to front, against the order of futures
MessagesPush_Reversed(reqs) ==
    [i \in 1..Len(reqs) |-> Call(reqs[Len(reqs) + 1 - i]).payload]

\* for (bytes, f) in reqs { buf.push(bytes); futures.push(f); }: the
\* messages pushed, in the order of the futures.
MessagesPush(reqs) == [i \in 1..Len(reqs) |-> Call(reqs[i]).payload]

\* A bug that pairs the futures with the offsets back to front
OffsetFor_Reversed(first, len, i) == first + len - i

\* A bug that hands every future the first offset of the range
OffsetFor_First(first, len, i) == first

\* A bug that leaves gaps between the offsets of a batch
OffsetFor_Gaps(first, len, i) == first + 2 * (i - 1)

\* A bug that hands out the offset after the one the message was given
OffsetFor_Shift(first, len, i) == first + i

\* range.iter().zip(futures): the i-th future (1-based) of the batch is
\* paired with the i-th offset of the range first..first+len-1.
OffsetFor(first, len, i) == first + (i - 1)

\* How many futures the zip pairs: the shorter of the range and the futures
ZipLen(rangeLen, nFutures) == Min(rangeLen, nFutures)

\* A bug that reports the failure to the first request only
ErrFutures_FirstOnly(n) == {1}

\* for f in futures { f.complete(Err(..."append error")) }: the positions of
\* the failed batch that get the error.
ErrFutures(n) == 1..n

\* A bug that sets dirty after the match, on both arms
DirtyAfterAppend_Always(ok, d) == TRUE

\* self.dirty = true on Ok; the Err arm leaves dirty alone
DirtyAfterAppend(ok, d) == IF ok THEN TRUE ELSE d

\* A bug that returns the request's failure as the sink's error
StartSendResult_ErrOnFailure(ok) == IF ok THEN "Ready" ELSE "Err"

\* start_send ends with Ok(AsyncSink::Ready) whatever the request's outcome
StartSendResult(ok) == "Ready"

\* send_all keeps the sink going while start_send returns Ok
EngineAfter(result) == IF result = "Ready" THEN "running" ELSE "gone"

\* A bug that answers with the next offset instead of the last one
LastOffsetValue_Next(lg) == Len(lg)

\* A bug that answers with the default whatever the log holds
LastOffsetValue_Default(lg) == 0

\* self.log.last_offset().unwrap_or(Offset(0))
LastOffsetValue(lg) ==
    IF CommitLogLastOffset(lg) < 0 THEN 0 ELSE CommitLogLastOffset(lg)

\* The calls after a batch was appended at range first..first+len-1: zipped
\* futures are completed with their offset, the others are dropped.
CompleteBatchOk(futures, first, len) ==
    LET F(id, c) ==
          IF ~InSeq(futures, id) THEN c
          ELSE IF IndexOf(futures, id) <= ZipLen(len, Len(futures))
               THEN CompleteOkOffset(c, OffsetFor(first, len, IndexOf(futures, id)))
               ELSE DropSender(c)
    IN [p \in Producers |->
           [k \in 1..Len(calls[p]) |-> F(<<p, k>>, calls[p][k])]]

\* The calls after a batch failed
CompleteBatchErr(futures) ==
    LET F(id, c) ==
          IF ~InSeq(futures, id) THEN c
          ELSE IF IndexOf(futures, id) \in ErrFutures(Len(futures))
               THEN CompleteErr(c, "append error")
               ELSE DropSender(c)
    IN [p \in Producers |->
           [k \in 1..Len(calls[p]) |-> F(<<p, k>>, calls[p][k])]]

\* A bug that keeps the checked-out buffer alive after the batch is handled
PoolAfterAppend_Kept(co, buf) == co.pool

\* buf is a local of the Append arm: it is dropped at the end of the arm, on
\* the Ok and the Err path alike, and a pooled buffer then goes back.
PoolAfterAppend(co, buf) ==
    IF co.some THEN PoolCheckin(co.pool, buf) ELSE co.pool

\* LogRequest::Append(reqs)
start_send_Append(reqs, ok) ==
    LET co == PoolCheckout(pool)
        buf == (IF co.some THEN co.buf ELSE UnpooledBuf) \o MessagesPush(reqs)
        r == CommitLogAppend(log, buf)
    IN /\ log' = IF ok THEN r.log ELSE log
       /\ calls' = IF ok THEN CompleteBatchOk(reqs, r.first, r.len)
                   ELSE CompleteBatchErr(reqs)
       /\ dirty' = DirtyAfterAppend(ok, dirty)
       /\ pool' = PoolAfterAppend(co, buf)
       /\ failures' = IF ok THEN failures ELSE failures + 1
       /\ engine' = EngineAfter(StartSendResult(ok))

\* A bug that reports the empty log as an error instead of defaulting
CompleteLastOffset_ErrOnEmpty(c, lg) ==
    IF lg = <<>> THEN CompleteErr(c, "empty log")
    ELSE CompleteOkOffset(c, LastOffsetValue(lg))

\* res.complete(Ok(self.log.last_offset().unwrap_or(Offset(0))))
CompleteLastOffset(c, lg) == CompleteOkOffset(c, LastOffsetValue(lg))

\* LogRequest::LastOffset(res)
start_send_LastOffset(id) ==
    /\ calls' = [calls EXCEPT ![id[1]][id[2]] = CompleteLastOffset(@, log)]
    /\ engine' = EngineAfter(StartSendResult(TRUE))
    /\ UNCHANGED <<log, dirty, pool, failures>>

\* LogRequest::Read(pos, lim, res)
start_send_Read(id) ==
    LET r == CommitLogRead(log, Call(id).pos, Call(id).lim)
    IN /\ calls' = [calls EXCEPT ![id[1]][id[2]] =
                       IF r.ok THEN CompleteOkMessages(@, r.msgs)
                       ELSE CompleteErr(@, "read error")]
       /\ engine' = EngineAfter(StartSendResult(r.ok))
       /\ UNCHANGED <<log, dirty, pool, failures>>

\* --------------------------------------------------- LogSink::poll_complete
\* A bug that flushes as soon as the interval has elapsed (>= for >)
FlushDue_AtInterval == dirty /\ (now - last_flush) >= FlushInterval

\* if self.dirty { if (now - self.last_flush) > Duration::from_secs(1) {..} }
FlushDue == dirty /\ (now - last_flush) > FlushInterval

\* A bug that forgets self.last_flush = now
LastFlushAfter_Stale(flushOk, lf, t) == lf

\* self.last_flush = now on success; the Err arm leaves it alone
LastFlushAfter(flushOk, lf, t) == IF flushOk THEN t ELSE lf

\* A bug that leaves dirty set after a successful flush
DirtyAfterFlush_Kept(flushOk, d) == d

\* self.dirty = false on success; the Err arm leaves it alone
DirtyAfterFlush(flushOk, d) == IF flushOk THEN FALSE ELSE d

poll_complete(flushOk) ==
    IF FlushDue
    THEN /\ last_flush' = LastFlushAfter(flushOk, last_flush, now)
         /\ dirty' = DirtyAfterFlush(flushOk, dirty)
         /\ failures' = IF flushOk THEN failures ELSE failures + 1
         /\ flush_calls' = Append(flush_calls,
                               [at |-> now, ok |-> flushOk, len |-> Len(log)])
    ELSE UNCHANGED <<last_flush, dirty, failures, flush_calls>>

\* ------------------------------------------- the engine task (send_all loop)
\* The stream yields an append batch: start_send(LogRequest::Append(batch))
SendAllAppend ==
    /\ engine = "running"
    /\ Selected.side = "append"
    /\ \E ok \in BOOLEAN :
          /\ ok \/ failures < MaxFailures
          /\ start_send_Append(DrainAll(append_sink), ok)
    /\ append_sink' = <<>>
    /\ flag' = Selected.flag
    /\ UNCHANGED <<panicked, read_sink, last_flush, now, flush_calls>>

\* The stream yields a meta request: start_send of LastOffset or Read
SendAllMeta ==
    /\ engine = "running"
    /\ Selected.side = "meta"
    /\ LET id == Head(read_sink)
       IN IF Call(id).kind = "last_offset" THEN start_send_LastOffset(id)
          ELSE start_send_Read(id)
    /\ read_sink' = Tail(read_sink)
    /\ flag' = Selected.flag
    /\ UNCHANGED <<panicked, append_sink, last_flush, now, flush_calls>>

\* The stream is not ready: poll_complete, then the task waits for a send
SendAllNotReady ==
    /\ engine = "running"
    /\ Selected.side = "none"
    /\ \E flushOk \in BOOLEAN :
          /\ flushOk \/ (FlushDue /\ failures < MaxFailures)
          /\ poll_complete(flushOk)
    /\ flag' = Selected.flag
    /\ engine' = "parked"
    /\ UNCHANGED <<calls, panicked, append_sink, read_sink, log, now, pool>>

\* Handle dropped: the engine future is dropped with its two receivers and
\* every queued request's Sender.
DropHandle ==
    /\ engine # "gone"
    /\ engine' = "gone"
    /\ calls' = [p \in Producers |->
                    [k \in 1..Len(calls[p]) |-> DropSender(calls[p][k])]]
    /\ append_sink' = <<>>
    /\ read_sink' = <<>>
    /\ UNCHANGED <<panicked, flag, log, dirty, last_flush, now, pool, failures,
                   flush_calls>>

\* ------------------------------------------------------------------ AsyncLog
CanCall(p) == ~panicked[p] /\ NumCalls < MaxCalls

\* A call whose send succeeded: the request is queued, the engine is woken
Sent(p, c) ==
    /\ calls' = [calls EXCEPT ![p] = Append(@, c)]
    /\ engine' = "running"
    /\ UNCHANGED panicked

\* A call whose send failed (receiver gone): .unwrap() panics the caller
SendFailed(p, c) ==
    /\ calls' = [calls EXCEPT ![p] = Append(@, [c EXCEPT !.st = "panicked"])]
    /\ panicked' = [panicked EXCEPT ![p] = TRUE]
    /\ UNCHANGED <<engine, append_sink, read_sink>>

\* AsyncLog::append(payload)
append(p, payload) ==
    /\ CanCall(p)
    /\ LET c == NewCall("append", payload, 0, 0, AckedBound, FALSE)
       IN IF engine # "gone"
          THEN /\ Sent(p, c)
               /\ append_sink' = Enqueue(append_sink, <<p, Len(calls[p]) + 1>>)
               /\ UNCHANGED read_sink
          ELSE SendFailed(p, c)
    /\ UNCHANGED <<flag, log, dirty, last_flush, now, pool, failures,
                   flush_calls>>

\* AsyncLog::append(payload) by a caller that drops the returned LogFuture
\* without polling it
append_then_drop(p, payload) ==
    /\ CanCall(p)
    /\ LET c == [NewCall("append", payload, 0, 0, AckedBound, AllResolved(p))
                   EXCEPT !.dropped = TRUE]
       IN IF engine # "gone"
          THEN /\ Sent(p, c)
               /\ append_sink' = Enqueue(append_sink, <<p, Len(calls[p]) + 1>>)
               /\ UNCHANGED read_sink
          ELSE SendFailed(p, c)
    /\ UNCHANGED <<flag, log, dirty, last_flush, now, pool, failures,
                   flush_calls>>

\* AsyncLog::last_offset()
last_offset(p) ==
    /\ CanCall(p)
    /\ LET c == NewCall("last_offset", <<>>, 0, 0, 0, AllResolved(p))
       IN IF engine # "gone"
          THEN /\ Sent(p, c)
               /\ read_sink' = Enqueue(read_sink, <<p, Len(calls[p]) + 1>>)
               /\ UNCHANGED append_sink
          ELSE SendFailed(p, c)
    /\ UNCHANGED <<flag, log, dirty, last_flush, now, pool, failures,
                   flush_calls>>

\* AsyncLog::read(position, limit)
read(p, pos, lim) ==
    /\ CanCall(p)
    /\ LET c == NewCall("read", <<>>, pos, lim, AckedBound, FALSE)
       IN IF engine # "gone"
          THEN /\ Sent(p, c)
               /\ read_sink' = Enqueue(read_sink, <<p, Len(calls[p]) + 1>>)
               /\ UNCHANGED append_sink
          ELSE SendFailed(p, c)
    /\ UNCHANGED <<flag, log, dirty, last_flush, now, pool, failures,
                   flush_calls>>

\* ------------------------------------------------------------------- clock
Tick ==
    /\ now < MaxTime
    /\ now' = now + 1
    /\ UNCHANGED <<calls, panicked, append_sink, read_sink, flag, engine, log,
                   dirty, last_flush, pool, failures, flush_calls>>

\* ------------------------------------------------------------ specification
\* AsyncLog::open: Handle::spawn opens the log, LogSink::new starts clean
\* with last_flush = Instant::now().
Init ==
    /\ calls = [p \in Producers |-> <<>>]
    /\ panicked = [p \in Producers |-> FALSE]
    /\ append_sink = <<>>
    /\ read_sink = <<>>
    /\ flag = FALSE
    /\ engine = "running"
    /\ log \in InitLogs
    /\ dirty = FALSE
    /\ last_flush = 0
    /\ now = 0
    /\ pool = PoolWithCapacity(PoolCapacity)
    /\ failures = 0
    /\ flush_calls = <<>>

CallAppend == \E p \in Producers, payload \in Payloads : append(p, payload)
CallLastOffset == \E p \in Producers : last_offset(p)
CallRead == \E p \in Producers, pos \in ReadPositions, lim \in ReadLimits :
                read(p, pos, lim)

\* Producers and the engine
Next ==
    \/ CallAppend
    \/ CallLastOffset
    \/ CallRead
    \/ SendAllAppend
    \/ SendAllMeta
    \/ SendAllNotReady

Spec == Init /\ [][Next]_vars

\* Producers and the engine, with the engine host torn down at any moment
NextTeardown ==
    \/ CallAppend
    \/ CallLastOffset
    \/ CallRead
    \/ SendAllAppend
    \/ SendAllMeta
    \/ SendAllNotReady
    \/ DropHandle

SpecTeardown == Init /\ [][NextTeardown]_vars

\* Producers and the engine, with the clock that the flush step reads
NextClock ==
    \/ CallAppend
    \/ CallLastOffset
    \/ CallRead
    \/ SendAllAppend
    \/ SendAllMeta
    \/ SendAllNotReady
    \/ Tick

SpecClock == Init /\ [][NextClock]_vars

\* One producer and the engine, with the clock: the flush step depends on
\* the requests the engine handles and on the time, not on who sent them nor
\* on how many bytes a read asks for.
SoloAppend == \E payload \in Payloads : append(1, payload)
SoloLastOffset == last_offset(1)
SoloRead == \E pos \in ReadPositions : read(1, pos, 2)

NextFlush ==
    \/ SoloAppend
    \/ SoloLastOffset
    \/ SoloRead
    \/ SendAllAppend
    \/ SendAllMeta
    \/ SendAllNotReady
    \/ Tick

SpecFlush == Init /\ [][NextFlush]_vars

\* The same with the scheduling the engine thread and the clock guarantee:
\* the worker runs the engine task while it is runnable, and time passes.
\* Nothing obliges a producer to make another call.
SpecFlushFair ==
    /\ Init /\ [][NextFlush]_vars
    /\ WF_vars(SendAllAppend) /\ WF_vars(SendAllMeta)
    /\ WF_vars(SendAllNotReady) /\ WF_vars(Tick)

\* One producer that may drop the future of an append, and the engine
SoloAppendThenDrop == \E payload \in Payloads : append_then_drop(1, payload)

NextDrop ==
    \/ SoloAppend
    \/ SoloAppendThenDrop
    \/ SoloLastOffset
    \/ SoloRead
    \/ SendAllAppend
    \/ SendAllMeta
    \/ SendAllNotReady

SpecDrop == Init /\ [][NextDrop]_vars

\* One producer and the engine, with the engine host torn down at any moment
NextHostDrop ==
    \/ SoloAppend
    \/ SoloLastOffset
    \/ SoloRead
    \/ SendAllAppend
    \/ SendAllMeta
    \/ SendAllNotReady
    \/ DropHandle

SpecHostDrop == Init /\ [][NextHostDrop]_vars

\* The engine with a pool that has no buffer to give: every checkout returns
\* None and start_send takes its fallback.
InitExhausted ==
    /\ calls = [p \in Producers |-> <<>>]
    /\ panicked = [p \in Producers |-> FALSE]
    /\ append_sink = <<>>
    /\ read_sink = <<>>
    /\ flag = FALSE
    /\ engine = "running"
    /\ log \in InitLogs
    /\ dirty = FALSE
    /\ last_flush = 0
    /\ now = 0
    /\ pool = <<>>
    /\ failures = 0
    /\ flush_calls = <<>>

SpecExhausted == InitExhausted /\ [][Next]_vars

\* Everything at once
NextAll ==
    \/ CallAppend
    \/ CallLastOffset
    \/ CallRead
    \/ SendAllAppend
    \/ SendAllMeta
    \/ SendAllNotReady
    \/ DropHandle
    \/ Tick

SpecAll == Init /\ [][NextAll]_vars

\* =================================================================== claims
Appends == {id \in Issued : Call(id).kind = "append"}
OkAppends == {id \in Appends : Call(id).st = "ok"}
Reads == {id \in Issued : Call(id).kind = "read"}
LastOffsets == {id \in Issued : Call(id).kind = "last_offset"}

\* Messages of an earlier run are the only ones with byte 0, and the log only
\* grows at its end: this is the length the log had when the engine started.
InitLogLen == Cardinality({i \in 1..Len(log) : log[i] = <<0>>})

\* C1: two appends of one producer, made in program order on one handle and
\* both acknowledged, get strictly increasing offsets, whatever the other
\* producers do and wherever the drains cut the batches.
C1_ProgramOrderOffsets ==
    \A a \in OkAppends, b \in OkAppends :
        (a[1] = b[1] /\ a[2] < b[2]) => Call(a).off < Call(b).off

\* C1 witness: a producer has two acknowledged appends and another producer
\* has an acknowledged append too.
C1_Witness ==
    \E a \in OkAppends, b \in OkAppends, c \in OkAppends :
        a[1] = b[1] /\ a[2] < b[2] /\ c[1] # a[1]

\* C2: an append request the engine drained has had exactly one completion,
\* Ok(offset) or the append error; a request still queued has had none; no
\* request is completed twice and none is dropped by the running engine.
C2_ExactlyOneCompletion ==
    \A a \in Appends :
        LET c == Call(a)
        IN /\ c.fired <= 1
           /\ InSeq(append_sink, a) <=> (c.st = "pending")
           /\ (c.st = "pending") => c.fired = 0
           /\ c.st \in {"ok", "err"} <=> c.fired = 1
           /\ (c.st = "err") => c.err = "append error"
           /\ (c.st \in {"cancelled", "panicked"}) => engine = "gone"
           /\ (engine # "gone") => c.st \in {"pending", "ok", "err"}

\* C2 witness: one drained request completed with an offset and one with the
\* append error.
C2_Witness ==
    \E a \in Appends, b \in Appends :
        /\ Call(a).st = "ok" /\ Call(a).fired = 1
        /\ Call(b).st = "err" /\ Call(b).fired = 1

\* C3: when a drained batch of N requests is appended successfully, the
\* request at position i (0-based, drain order) gets offset first + i, so the
\* N offsets are the contiguous range first..first+N-1.
C3_BatchContiguous ==
    [][(append_sink # <<>> /\ log' # log)
        => LET N == Len(append_sink)
               first == calls'[append_sink[1][1]][append_sink[1][2]].off
           IN /\ Len(log') = Len(log) + N
              /\ \A i \in 1..N :
                    LET c == calls'[append_sink[i][1]][append_sink[i][2]]
                    IN c.st = "ok" /\ c.off = first + (i - 1)]_vars

\* C3 witness: two requests of one batch were acknowledged (the second was
\* issued before the first one's completion fired, and follows it).
C3_Witness ==
    \E a \in OkAppends, b \in OkAppends :
        /\ a # b
        /\ Call(b).off = Call(a).off + 1
        /\ Call(b).hb <= Call(a).off

\* C4: from an empty log, once all M appends made so far are acknowledged
\* (no failures), their offsets are pairwise distinct and are exactly 0..M-1.
C4_OffsetsCoverRange ==
    (InitLogLen = 0 /\ Appends = OkAppends)
        => /\ {Call(a).off : a \in Appends} = 0..(Cardinality(Appends) - 1)
           /\ \A a \in Appends, b \in Appends :
                 a # b => Call(a).off # Call(b).off

\* C4 witness: three appends by two producers, all acknowledged, empty start.
C4_Witness ==
    /\ InitLogLen = 0
    /\ Appends = OkAppends
    /\ Cardinality(Appends) = 3
    /\ \E a \in Appends, b \in Appends : a[1] # b[1]

\* C5: an acknowledged offset refers to its payload: once the completion has
\* fired the log holds P at offset O, and every read at position O with a
\* limit of at least |P| that the engine answers has P as its first message.
C5_OffsetRefersToPayload ==
    /\ \A a \in OkAppends :
          /\ Call(a).off < Len(log)
          /\ log[Call(a).off + 1] = Call(a).payload
    /\ \A a \in OkAppends, r \in Reads :
          (/\ Call(r).st = "ok"
           /\ Call(r).pos = Call(a).off
           /\ Call(r).lim >= Len(Call(a).payload))
            => /\ Call(r).msgs # <<>>
               /\ Call(r).msgs[1] = Call(a).payload

\* C5 witness: a read issued after an acknowledgement returned the payload
\* acknowledged at its position, from a log of several messages.
C5_Witness ==
    \E a \in OkAppends, r \in Reads :
        /\ Call(r).st = "ok"
        /\ Call(r).pos = Call(a).off
        /\ Call(r).hb > Call(a).off
        /\ Call(r).lim >= Len(Call(a).payload)
        /\ Call(r).msgs[1] = Call(a).payload
        /\ Len(log) >= 2

\* C6 as stated: a last_offset call made after K append calls returned, their
\* completions not awaited, resolves to at least every offset those appends
\* were given.  The two calls travel on different channels and the select may
\* serve the meta channel first, so the code does not keep this.
C6_LastOffsetAfterAppendCalls ==
    \A l \in LastOffsets, a \in OkAppends :
        (Call(l).st = "ok" /\ a[1] = l[1] /\ a[2] < l[2])
            => Call(l).off >= Call(a).off

\* C6 amended: a last_offset call made after the completions of the K earlier
\* appends of the handle have fired resolves to at least the largest offset
\* those appends were given.
C6_LastOffsetAfterAcks ==
    \A l \in LastOffsets, a \in OkAppends :
        (Call(l).st = "ok" /\ Call(l).awaited /\ a[1] = l[1] /\ a[2] < l[2])
            => Call(l).off >= Call(a).off

\* C6 witness: a producer appended twice, saw both acknowledged, then asked
\* for the last offset and got its answer.
C6_Witness ==
    \E l \in LastOffsets, a \in OkAppends, b \in OkAppends :
        /\ Call(l).st = "ok" /\ Call(l).awaited
        /\ a[1] = l[1] /\ b[1] = l[1] /\ a[2] < b[2] /\ b[2] < l[2]
        /\ Call(l).off >= Call(b).off /\ Call(b).off > 0

\* C7: a read issued after an append's completion fired with Ok(offset) is
\* handled on a log that contains that offset: the log holds every offset
\* acknowledged before the read was issued, so a read at such a position is
\* never answered with the read error and starts at that position's message.
C7_ReadObservesAckedAppends ==
    \A r \in Reads :
        /\ Call(r).hb <= Len(log)
        /\ (Call(r).st \in {"ok", "err"} /\ Call(r).pos < Call(r).hb)
              => /\ Call(r).st = "ok"
                 /\ (Call(r).lim >= Len(log[Call(r).pos + 1]))
                       => /\ Call(r).msgs # <<>>
                          /\ Call(r).msgs[1] = log[Call(r).pos + 1]

\* C7 witness: a read at the offset of an append of this run, issued after
\* that append's completion fired, was answered with its message.
C7_Witness ==
    \E r \in Reads, a \in OkAppends :
        /\ Call(r).st = "ok"
        /\ Call(r).pos = Call(a).off
        /\ Call(a).off < Call(r).hb
        /\ Call(r).pos >= InitLogLen
        /\ Call(r).msgs # <<>>

\* The step that handles a drained batch whose CommitLog.append failed
FailedBatchStep ==
    /\ append_sink # <<>>
    /\ append_sink' = <<>>
    /\ failures' = failures + 1

\* C8: when CommitLog.append fails for a drained batch, every completion of
\* the batch gets the same append error, none gets an offset, and dirty keeps
\* the value it had before the batch.
C8_FailedBatchUniformError ==
    [][FailedBatchStep
        => /\ \A i \in 1..Len(append_sink) :
                 LET c == calls'[append_sink[i][1]][append_sink[i][2]]
                 IN c.st = "err" /\ c.err = "append error" /\ c.fired = 1
           /\ dirty' = dirty
           /\ log' = log]_vars

\* C8 witness: a batch of two requests failed as a whole.
C8_Witness ==
    \E a \in Appends, b \in Appends :
        a # b /\ Call(a).st = "err" /\ Call(b).st = "err"

\* The step in which a request fails: some pending completion gets an error
RequestFailsStep ==
    \E id \in Issued :
        Call(id).st = "pending" /\ calls'[id[1]][id[2]].st = "err"

\* The requests the engine takes up in a step
TakenUp ==
    IF append_sink' # append_sink
    THEN {append_sink[i] : i \in 1..Len(append_sink)}
    ELSE {Head(read_sink)}

\* C9: a failing request never poisons the engine.  In the step in which an
\* append batch or a read fails, only the completions of that request change,
\* the engine keeps running with its log, dirty flag, flush time and pool as
\* they were, and the other queued requests stay queued for service.
C9_FailureIsLocal ==
    [][RequestFailsStep
        => /\ engine' = "running"
           /\ log' = log /\ dirty' = dirty
           /\ last_flush' = last_flush /\ pool' = pool
           /\ \A id \in Issued \ TakenUp :
                 calls'[id[1]][id[2]] = Call(id)
           /\ \A id \in TakenUp : calls'[id[1]][id[2]].st = "err"
           /\ \/ append_sink' = <<>> /\ read_sink' = read_sink
              \/ append_sink' = append_sink /\ read_sink' = Tail(read_sink)]_vars

\* C9 witness: a read of an offset not yet written failed; afterwards the
\* engine appended a message at that very offset and answered a second read
\* of it with the message.
C9_Witness ==
    \E r1 \in Reads, a \in OkAppends, r2 \in Reads :
        /\ Call(r1).st = "err" /\ Call(r1).err = "read error"
        /\ Call(a).off = Call(r1).pos
        /\ Call(r2).pos = Call(r1).pos /\ Call(r2).st = "ok"
        /\ Call(r2).msgs # <<>> /\ Call(r2).msgs[1] = Call(a).payload
        /\ engine # "gone"

\* C10 as stated: an append whose ingress send fails because the receiver is
\* gone returns a future that resolves to an "engine gone" error, and the
\* caller does not panic.  The code unwraps the send's result instead.
C10_SendFailureIsAnError ==
    \A a \in Appends :
        /\ Call(a).st # "panicked"
        /\ (Call(a).st = "err") => Call(a).err \in {"append error", "engine gone"}

\* C11 as stated: once an append has been acknowledged and dirty is set, a
\* successful flush follows and dirty returns to false, provided the engine
\* stays alive and no CommitLog call fails, even when no further request is
\* submitted.  poll_complete runs only when both streams are not ready, and
\* the task then waits for the next send: no timer wakes it.
C11_DurabilityEventuallyReached ==
    dirty ~> (~dirty \/ failures > 0)

\* The time of the latest successful flush before the i-th invocation, or the
\* engine's start (time 0) when none succeeded before it
LastOkBefore(i) ==
    LET oks == {j \in 1..(i - 1) : flush_calls[j].ok}
    IN IF oks = {} THEN 0
       ELSE flush_calls[CHOOSE j \in oks : \A k \in oks : k <= j].at

\* C12 as stated: any two consecutive invocations of CommitLog.flush, failed
\* or not, are more than the flush interval apart, and the first one is more
\* than the interval after the engine's start.  A failed flush leaves
\* last_flush alone, so the next poll_complete calls flush again at once.
C12_FlushCadence ==
    \A i \in 1..Len(flush_calls) :
        flush_calls[i].at - (IF i = 1 THEN 0 ELSE flush_calls[i - 1].at)
            > FlushInterval

\* C12 amended: every invocation of CommitLog.flush is made more than the
\* flush interval after the latest successful invocation before it, and
\* after the engine's start; an invocation that follows a failed one may
\* come sooner.
C12_FlushAfterLastSuccess ==
    \A i \in 1..Len(flush_calls) :
        flush_calls[i].at - LastOkBefore(i) > FlushInterval

\* C12 witness: a flush succeeded, and a later invocation followed it.
C12_Witness ==
    \E i \in 1..Len(flush_calls), j \in 1..Len(flush_calls) :
        i < j /\ flush_calls[i].ok /\ flush_calls[j].at > flush_calls[i].at

\* The calls k, k+1, k+2 of producer p are: a last_offset that resolved
\* before the next call was made, the only append of the run, whose future
\* the caller dropped, and a last_offset made after the engine handled that
\* append; no CommitLog call failed.
DroppedAppendCase(p, k) ==
    /\ k + 2 <= Len(calls[p])
    /\ calls[p][k].kind = "last_offset" /\ calls[p][k].st = "ok"
    /\ calls[p][k + 1].kind = "append" /\ calls[p][k + 1].dropped
    /\ calls[p][k + 1].awaited
    /\ calls[p][k + 2].kind = "last_offset" /\ calls[p][k + 2].st = "ok"
    /\ calls[p][k + 2].awaited
    /\ Appends = {<<p, k + 1>>}
    /\ failures = 0

\* The engine handled the append of the dropped future as any other
DroppedAppendDone(p, k) ==
    /\ calls[p][k + 1].fired = 1
    /\ Len(log) = InitLogLen + 1
    /\ log[Len(log)] = calls[p][k + 1].payload
    /\ engine = "running" \/ engine = "parked"

\* C13 as stated: the append whose future was dropped is still executed, the
\* engine does not panic, and the last_offset after it is exactly 1 greater
\* than the last_offset before it, for every initial log.  On an empty log
\* last_offset answers 0, and it answers 0 again once offset 0 is written.
C13_DroppedAppendAddsOne ==
    \A p \in Producers, k \in 1..MaxCalls :
        DroppedAppendCase(p, k)
            => /\ DroppedAppendDone(p, k)
               /\ calls[p][k + 2].off = calls[p][k].off + 1

\* C13 amended: the same, with the last_offset exactly 1 greater when the
\* log was not empty before the append, and 0 both times when it was empty.
C13_DroppedAppendStillAppends ==
    \A p \in Producers, k \in 1..MaxCalls :
        DroppedAppendCase(p, k)
            => /\ DroppedAppendDone(p, k)
               /\ calls[p][k + 2].off =
                     calls[p][k].off + (IF InitLogLen = 0 THEN 0 ELSE 1)

\* C13 witness: the case on a log that held a message before the append.
C13_Witness ==
    \E p \in Producers, k \in 1..MaxCalls :
        /\ DroppedAppendCase(p, k)
        /\ InitLogLen = 1
        /\ calls[p][k + 2].off = 1 /\ calls[p][k].off = 0

\* C14: the step in which the engine handles a LastOffset request fires its
\* completion once, with Ok: the offset of the log's last message, or 0 when
\* the log is empty; no LastOffset request of a running engine has an error.
C14_LastOffsetNeverFails ==
    [][\A l \in LastOffsets :
          /\ Call(l).st \in {"pending", "ok"}
          /\ (Call(l).st = "pending" /\ calls'[l[1]][l[2]].st # "pending")
                => /\ calls'[l[1]][l[2]].st = "ok"
                   /\ calls'[l[1]][l[2]].fired = 1
                   /\ calls'[l[1]][l[2]].off =
                         (IF log = <<>> THEN 0 ELSE Len(log) - 1)]_vars

\* C14 witness: a LastOffset was answered Ok(0) on the empty log, and the log
\* is still empty.
C14_Witness ==
    \E l \in LastOffsets :
        /\ log = <<>>
        /\ Call(l).st = "ok" /\ Call(l).off = 0 /\ Call(l).fired = 1

\* The engine takes the batch off the append channel / the head off the meta
\* channel (producers only add to the channels)
ServedAppend == Len(append_sink') < Len(append_sink)
ServedMeta == Len(read_sink') < Len(read_sink)

\* C15: neither ingress channel starves the other.  When the engine serves
\* one channel while a request waits on the other, the other channel is the
\* one polled first next, and a channel is never served when it is the other
\* one's turn and the other holds a request; only the engine moves the turn.
\* So a waiting meta request is at the head of the served channel after at
\* most one append batch per meta request queued before it, and a waiting
\* append is served after at most one meta request, however fast the
\* producers refill the channels.
C15_NoStarvation ==
    [][/\ (ServedAppend /\ read_sink # <<>>) => flag'
       /\ (ServedAppend /\ flag) => read_sink = <<>>
       /\ (ServedMeta /\ append_sink # <<>>) => ~flag'
       /\ (ServedMeta /\ ~flag) => append_sink = <<>>
       /\ ServedMeta => read_sink' = Tail(read_sink)
       /\ ServedAppend => append_sink' = <<>>
       /\ (flag' # flag) => \/ ServedAppend \/ ServedMeta
                            \/ (append_sink = <<>> /\ read_sink = <<>>)
       /\ (engine = "running" /\ engine' = "parked")
             => (append_sink = <<>> /\ read_sink = <<>>)]_vars

\* C15 witness: an append batch has been served while a meta request waited
\* and the producers have refilled the append channel: the meta channel is
\* polled first.
C15_Witness ==
    /\ OkAppends # {}
    /\ append_sink # <<>> /\ read_sink # <<>>
    /\ flag /\ engine = "running"
    /\ \E m \in Issued : InSeq(read_sink, m) /\ Call(m).kind = "read"
                          /\ Call(m).hb = 0

\* The step that tears the engine down
TeardownStep == engine # "gone" /\ engine' = "gone"

\* C16: when the engine is torn down, every request that was enqueued and
\* not yet completed has its LogFuture resolve to the error "Cancelled" when
\* polled: none stays unresolved, none resolves to a value, and the outcome
\* is final.  Requests completed before the teardown keep their result.
C16_PendingResolveCancelled ==
    [][/\ TeardownStep
            => \A id \in Issued :
                  IF Call(id).st = "pending"
                  THEN /\ LogFuturePoll(calls'[id[1]][id[2]]) =
                             [poll |-> "Err", err |-> "Cancelled"]
                       /\ calls'[id[1]][id[2]].fired = 0
                  ELSE calls'[id[1]][id[2]] = Call(id)
       /\ engine = "gone"
            => \A id \in Issued :
                  /\ LogFuturePoll(Call(id)).poll # "NotReady"
                       \/ Call(id).st = "panicked"
                  /\ calls'[id[1]][id[2]] = Call(id)]_vars

\* C16 witness: the engine was torn down with an append, a last_offset and
\* a read pending; all three futures resolve to "Cancelled".
C16_Witness ==
    /\ engine = "gone"
    /\ \E a \in Appends, l \in LastOffsets, r \in Reads :
          \A id \in {a, l, r} :
              /\ Call(id).st = "cancelled"
              /\ LogFuturePoll(Call(id)) = [poll |-> "Err", err |-> "Cancelled"]

\* The step in which send_all runs poll_complete (and the task then waits)
PollCompleteStep == engine = "running" /\ engine' = "parked"

\* The latest invocation of CommitLog.flush after the step
LastFlushCall == flush_calls'[Len(flush_calls')]

\* C17: one flush step.  If dirty is false or now - last_flush <= 1 second,
\* flush is not called and dirty and last_flush keep their values; otherwise
\* flush is called once, at the current time: on success last_flush becomes
\* now and dirty false, on failure dirty stays true and last_flush is
\* unchanged.  The step changes no completion and not the log, and no other
\* step calls flush.
C17_FlushStep ==
    [][IF PollCompleteStep
       THEN /\ calls' = calls /\ log' = log
            /\ IF ~dirty \/ (now - last_flush) <= FlushInterval
               THEN /\ flush_calls' = flush_calls
                    /\ dirty' = dirty /\ last_flush' = last_flush
               ELSE /\ Len(flush_calls') = Len(flush_calls) + 1
                    /\ SubSeq(flush_calls', 1, Len(flush_calls)) = flush_calls
                    /\ LastFlushCall.at = now
                    /\ IF LastFlushCall.ok
                       THEN last_flush' = now /\ dirty' = FALSE
                       ELSE last_flush' = last_flush /\ dirty' = TRUE
       ELSE flush_calls' = flush_calls /\ last_flush' = last_flush]_vars

\* C17 witness: a flush step failed, a later one succeeded, and after a
\* further append a flush step was skipped with dirty set, the interval not
\* having elapsed.
C17_Witness ==
    /\ Len(flush_calls) = 2
    /\ ~flush_calls[1].ok /\ flush_calls[2].ok
    /\ last_flush = flush_calls[2].at
    /\ dirty /\ engine = "parked" /\ now - last_flush = FlushInterval

\* The length the log had at the latest successful flush, or at the engine's
\* start when no flush has succeeded yet
FlushedLen ==
    LET oks == {j \in 1..Len(flush_calls) : flush_calls[j].ok}
    IN IF oks = {} THEN InitLogLen
       ELSE flush_calls[CHOOSE j \in oks : \A k \in oks : k <= j].len

\* The step in which a flush is called and fails
FailedFlushStep ==
    /\ Len(flush_calls') = Len(flush_calls) + 1
    /\ ~flush_calls'[Len(flush_calls')].ok

\* C18: in every reachable state dirty is true exactly when a batch has
\* been appended successfully (the log has grown) since the latest
\* successful flush, or since the engine's start if none succeeded; the
\* steps that handle a read or a last_offset, a failed append and a failed
\* flush leave dirty as it was.
C18_DirtyMeansUnflushedAppends ==
    [][/\ dirty <=> (Len(log) > FlushedLen)
       /\ (dirty <=> (Len(log) > FlushedLen))'
       /\ ServedMeta => dirty' = dirty
       /\ FailedBatchStep => dirty' = dirty
       /\ FailedFlushStep => dirty' = dirty]_vars

\* C18 witness: after a successful flush a further batch was appended, so
\* dirty is set again; a flush had failed before and a read was answered.
C18_Witness ==
    /\ \E i \in 1..Len(flush_calls), j \in 1..Len(flush_calls) :
          ~flush_calls[i].ok /\ flush_calls[j].ok
    /\ dirty /\ Len(log) > FlushedLen /\ FlushedLen > InitLogLen
    /\ \E r \in Reads : Call(r).st \in {"ok", "err"}

\* The payloads of the requests the engine drains in a step, in drain order
DrainedPayloads == [i \in 1..Len(append_sink) |-> Call(append_sink[i]).payload]

\* C19: the pool never holds more buffers than its capacity, every buffer
\* in the pool has logical length zero, and a batch built in a checked-out
\* buffer is exactly the payloads of the current drain: a successful append
\* adds those messages to the log and nothing of an earlier batch.
C19_PoolInvariants ==
    [][/\ Len(pool) <= PoolCapacity /\ Len(pool') <= PoolCapacity
       /\ \A i \in 1..Len(pool) : Len(pool[i]) = 0
       /\ \A i \in 1..Len(pool') : Len(pool'[i]) = 0
       /\ (ServedAppend /\ PoolCheckout(pool).some /\ log' # log)
             => log' = log \o DrainedPayloads]_vars

\* C19 witness: two batches were built in pooled buffers one after the
\* other, and the pool holds all its buffers again.
C19_Witness ==
    /\ Len(pool) = PoolCapacity
    /\ \E a \in OkAppends, b \in OkAppends :
          /\ Call(b).hb > Call(a).off
          /\ log[Call(a).off + 1] = <<2, 2>> /\ log[Call(b).off + 1] = <<1>>
          /\ Len(log) = Call(b).off + 1

\* C20: when checkout returns None the batch is built in a new unpooled
\* buffer and the append goes as with a pooled one: the engine keeps running,
\* a successful append adds exactly the drained payloads and completes the
\* request at position i (1-based) with offset first + i - 1, and an error
\* completion appears only when CommitLog.append itself failed; nothing is
\* returned to the pool.
C20_PoolExhaustionFallsBack ==
    [][(ServedAppend /\ ~PoolCheckout(pool).some)
          => /\ engine' = "running"
             /\ pool' = pool
             /\ IF failures' = failures
                THEN /\ log' = log \o DrainedPayloads
                     /\ \A i \in 1..Len(append_sink) :
                           LET c == calls'[append_sink[i][1]][append_sink[i][2]]
                           IN /\ c.st = "ok" /\ c.fired = 1
                              /\ c.off = Len(log) + i - 1
                ELSE /\ log' = log
                     /\ \A i \in 1..Len(append_sink) :
                           LET c == calls'[append_sink[i][1]][append_sink[i][2]]
                           IN c.st = "err" /\ c.err = "append error"]_vars

\* C20 witness: with no buffer in the pool, a batch of two requests and then
\* a further request were appended and acknowledged.
C20_Witness ==
    /\ pool = <<>>
    /\ \E a \in OkAppends, b \in OkAppends, c \in OkAppends :
          /\ Call(b).off = Call(a).off + 1 /\ Call(b).hb <= Call(a).off
          /\ Call(c).hb > Call(b).off
          /\ log[Call(c).off + 1] = Call(c).payload

\* The number of pooled buffers that are checked out when the pool is pl
CheckedOut(pl) == PoolCapacity - Len(pl)

\* C21: between two requests no pooled buffer is checked out, the pool
\* holding its full count of buffers; while an append batch is handled
\* exactly one is checked out, and it is back when the handling ends,
\* whether the append succeeded or failed; no other step touches the pool.
C21_OneBufferAtATime ==
    [][/\ CheckedOut(pool) = 0 /\ CheckedOut(pool') = 0
       /\ ServedAppend
             => /\ PoolCheckout(pool).some
                /\ CheckedOut(PoolCheckout(pool).pool) = 1
       /\ ~ServedAppend => pool' = pool]_vars

\* C21 witness: one batch failed and a later one was appended, each built
\* in a pooled buffer; the engine waits for the next request with the pool
\* at its full count.
C21_Witness ==
    /\ engine = "parked"
    /\ CheckedOut(pool) = 0
    /\ \E a \in Appends, b \in OkAppends :
          Call(a).st = "err" /\ a[2] < b[2] /\ a[1] = b[1]

====
